---- MODULE Spec2Model ----
(***************************************************************************)
(* Model of the photo-web authorization gateway (src/auth/app).            *)
(*                                                                         *)
(* Strings are sequences of one-character strings, so that strip(),        *)
(* lower(), split(), startswith() and fnmatch() are computed character by  *)
(* character as the Python code computes them.  The atom "<None>" stands   *)
(* for Python's None; it is not a character of any modelled string.        *)
(***************************************************************************)
EXTENDS Integers, Sequences, FiniteSets, TLC

(***************************************************************************)
(* Bounds                                                                  *)
(***************************************************************************)
\* largest number of lines of a rule source file
MaxLines == 3
\* largest number of lines of a rule source file of the load specification
MaxSourceLines == 3
\* the clock of the gateway specification: minutes per tick, and number of ticks
TickMinutes == 30
MaxTicks == 3
\* largest number of lines of a rule source of the reload specification
MaxReloadLines == 2
\* the requests one worker of the gateway has in flight
MaxRequests == 2
\* the worker processes of the photos service
MaxWorkers == 2

(***************************************************************************)
(* String primitives (Python str methods used by the code)                 *)
(***************************************************************************)
None == <<"<None>">>

IsWhitespace(c) == c \in {" ", "\t"}

RECURSIVE LStrip(_)
LStrip(s) ==
    IF s = <<>> THEN <<>>
    ELSE IF IsWhitespace(Head(s)) THEN LStrip(Tail(s))
    ELSE s

RECURSIVE RStrip(_)
RStrip(s) ==
    IF s = <<>> THEN <<>>
    ELSE IF IsWhitespace(s[Len(s)]) THEN RStrip(SubSeq(s, 1, Len(s) - 1))
    ELSE s

\* str.strip()
Strip(s) == RStrip(LStrip(s))

UpperToLower ==
    [c \in {"A", "D", "E", "L", "N", "O", "W", "Y", "P", "U", "B", "I", "C", "M"} |->
        CASE c = "A" -> "a" [] c = "D" -> "d" [] c = "E" -> "e" [] c = "L" -> "l"
          [] c = "N" -> "n" [] c = "O" -> "o" [] c = "W" -> "w" [] c = "Y" -> "y"
          [] c = "P" -> "p" [] c = "U" -> "u" [] c = "B" -> "b" [] c = "I" -> "i"
          [] c = "C" -> "c" [] c = "M" -> "m"]

\* str.lower()
Lower(s) == [i \in 1..Len(s) |-> IF s[i] \in DOMAIN UpperToLower THEN UpperToLower[s[i]] ELSE s[i]]

\* str.startswith(c) for a one-character prefix
StartsWith(s, c) == s # <<>> /\ Head(s) = c

\* str.split(sep): the fields between the separators; "" splits into [""]
RECURSIVE SplitFrom(_, _, _)
SplitFrom(s, sep, cur) ==
    IF s = <<>> THEN <<cur>>
    ELSE IF Head(s) = sep THEN <<cur>> \o SplitFrom(Tail(s), sep, <<>>)
    ELSE SplitFrom(Tail(s), sep, Append(cur, Head(s)))

Split(s, sep) == SplitFrom(s, sep, <<>>)

\* sep.join(list)
RECURSIVE Join(_, _)
Join(list, sep) ==
    IF list = <<>> THEN <<>>
    ELSE IF Len(list) = 1 THEN list[1]
    ELSE list[1] \o <<sep>> \o Join(Tail(list), sep)

\* x in list
InList(x, list) == \E i \in 1..Len(list) : list[i] = x

(***************************************************************************)
(* fnmatch.fnmatch(name, pattern) on POSIX: the whole name must match;     *)
(* '*' is any run of characters, '?' is exactly one character.             *)
(***************************************************************************)
RECURSIVE FnMatch(_, _)
FnMatch(name, pat) ==
    IF pat = <<>> THEN name = <<>>
    ELSE IF Head(pat) = "*"
        THEN FnMatch(name, Tail(pat)) \/ (name # <<>> /\ FnMatch(Tail(name), pat))
    ELSE IF Head(pat) = "?"
        THEN name # <<>> /\ FnMatch(Tail(name), Tail(pat))
    ELSE name # <<>> /\ Head(name) = Head(pat) /\ FnMatch(Tail(name), Tail(pat))

(***************************************************************************)
(* csv.reader on one line of the file (default dialect, no quote           *)
(* characters in the modelled alphabet): an empty line is the empty row,   *)
(* any other line is split at the commas.                                  *)
(***************************************************************************)
CsvRow(line) == IF line = <<>> THEN <<>> ELSE Split(line, ",")

(***************************************************************************)
(* class AuthorizationRule                                                 *)
(***************************************************************************)
\* faulty variant: the case of the action is kept
AuthorizationRule_mCaseSensitive(action, uri_pattern, role) ==
    [action      |-> Strip(action),
     uri_pattern |-> Strip(uri_pattern),
     role        |-> IF role # None /\ role # <<>> /\ Strip(role) # <<>>
                     THEN Strip(role) ELSE None]

\* __init__: action stripped and lower-cased, pattern stripped, role stripped or None
AuthorizationRule(action, uri_pattern, role) ==
    [action      |-> Lower(Strip(action)),
     uri_pattern |-> Strip(uri_pattern),
     role        |-> IF role # None /\ role # <<>> /\ Strip(role) # <<>>
                     THEN Strip(role) ELSE None]

matches_uri(rule, uri) == FnMatch(uri, rule.uri_pattern)

is_delegated(rule) == rule.role # None /\ StartsWith(rule.role, "!")

\* faulty variant: the role column plays no part in selecting a rule
applies_to_role_mIgnoreRole(rule, user_roles) == TRUE

applies_to_role(rule, user_roles) ==
    IF rule.role = None THEN TRUE
    ELSE IF is_delegated(rule) THEN TRUE
    ELSE InList(rule.role, user_roles)

\* "http://" + role[1:] for a delegated rule, "" otherwise
delegation_url(rule) ==
    IF is_delegated(rule) THEN <<"h", "t", "t", "p", ":", "/", "/">> \o Tail(rule.role)
    ELSE <<>>

(***************************************************************************)
(* String constants of the code and of the modelled rule sources.  Paths   *)
(* are abbreviated: /a/... stands for /auth/..., /p/... for /photos/...,   *)
(* /a/z for /auth/authorize, /a/u for /auth/users, /a/l for /auth/login.   *)
(***************************************************************************)
S_allow == <<"a", "l", "l", "o", "w">>
S_deny == <<"d", "e", "n", "y">>
S_public == <<"p", "u", "b", "l", "i", "c">>
S_protected == <<"p", "r", "o", "t", "e", "c", "t", "e", "d">>
S_admin == <<"a", "d", "m", "i", "n">>
S_authorize == <<"/", "a", "u", "t", "h", "o", "r", "i", "z", "e">>

\* deny, /a/z
L_denyAuthorize == S_deny \o <<",", " ", "/", "a", "/", "z">>
\* deny,/a/u*,public
L_denyUsersPublic == S_deny \o <<",", "/", "a", "/", "u", "*", ",">> \o S_public
\* deny, /a/u*, protected
L_denyUsersProtected == S_deny \o <<",", " ", "/", "a", "/", "u", "*", ",", " ">> \o S_protected
\* Allow, /a/*, admin
L_allowAuthAdmin == <<"A", "l", "l", "o", "w", ",", " ", "/", "a", "/", "*", ",", " ">> \o S_admin
\* allow,/a*
L_allowAuthOpen == S_allow \o <<",", "/", "a", "*">>
\* allow,/p/*,!h
L_allowPhotosDelegated == S_allow \o <<",", "/", "p", "/", "*", ",", "!", "h">>
\* deny,/p/?,!h
L_denyPhotosDelegated == S_deny \o <<",", "/", "p", "/", "?", ",", "!", "h">>
\* allow,/q?,   (a blank role column)
L_allowBlankRole == S_allow \o <<",", "/", "q", "?", ",", " ", " ">>
\* # c,d  (a comment holding a comma)
L_comment == <<"#", " ", "c", ",", "d">>
\*   #x   (a comment after leading blanks)
L_commentIndented == <<" ", "#", "x">>
\* the empty line
L_blank == <<>>
\* bad  (one field)
L_oneField == <<"b", "a", "d">>
\* a line of blanks (one blank field)
L_spaces == <<" ", " ">>
\* ,/a/l  (an empty action: two fields)
L_emptyAction == <<",", "/", "a", "/", "l">>
\* ALLOW,/a/l,Admin,x  (four fields, upper-case action, mixed-case role)
L_fourFields == <<"A", "L", "L", "O", "W", ",", "/", "a", "/", "l", ",", "A", "d", "m", "i", "n", ",", "x">>

\* the lines a rule source of the decision specification is made of
RuleLines ==
    {L_denyAuthorize, L_denyUsersPublic, L_allowAuthAdmin,
     L_allowAuthOpen, L_allowPhotosDelegated, L_denyPhotosDelegated}

\* the rule file of the test suite (test_authorization.py, temp_roles_file),
\* with a delegated rule for the photos service
ReferenceLines ==
    <<L_denyAuthorize, L_denyUsersPublic, L_denyUsersProtected, L_allowAuthAdmin,
      L_allowAuthOpen, L_allowPhotosDelegated>>

\* the lines a rule source of the load specification is made of: records of
\* two, three and four fields, comments, empty and blank lines, one-field lines
LoadLines ==
    {L_denyAuthorize, L_allowAuthAdmin, L_allowBlankRole, L_allowPhotosDelegated,
     L_comment, L_commentIndented, L_blank, L_oneField, L_spaces, L_emptyAction,
     L_fourFields}

\* the request paths of the decision specification
Paths ==
    {<<"/", "a", "/", "z">>, <<"/", "a", "/", "u">>, <<"/", "a", "/", "l">>,
     <<"/", "p", "/", "x">>, <<"/", "x">>}

\* the role lists a caller may hold
RoleLists ==
    {<<>>, <<S_public>>, <<S_admin>>, <<S_public, S_protected>>}

\* what the delegation target does when it is asked
Statuses == {200, 204, 299, 300, 403, 500}

RemoteOutcomes ==
    [kind : {"status"}, status : Statuses]
    \cup [kind : {"timeout", "request_error", "exception"}, status : {0}]

NotContacted == [kind |-> "none", status |-> 0]

\* request objects: absent (None), or present with the session cookie it carries
NoRequest == [present |-> FALSE, session |-> None]

Requests == {NoRequest, [present |-> TRUE, session |-> <<"c", "1">>]}

Sources(lines, n) ==
    {[exists |-> FALSE, lines |-> <<>>]}
    \cup {[exists |-> TRUE, lines |-> ls] : ls \in UNION {[1..k -> lines] : k \in 0..n}}

(***************************************************************************)
(* State                                                                   *)
(***************************************************************************)
VARIABLES
    source,       \* the rule source file: whether it exists, and its lines
    constructed,  \* whether the global auth_manager has been built
    rules,        \* AuthorizationManager.rules
    loadStatus,   \* how the latest load_rules ended
    call,         \* the latest is_authorized call: its arguments and what it did
    now,          \* datetime.now(), in minutes
    idp,          \* the identity provider: what it says of each session credential
    db,           \* the user store: email -> stored user, or NoUser
    session,      \* the caller's session store (request.session): cache key -> entry
    req,          \* the GET /authorize request being answered, and whether
                  \* resolving its identity asked the identity provider
    resp,         \* the response to it
    last,         \* the latest verify_user call on a credential that returned:
                  \* the credential, the time, the roles string it returned
    loader,       \* a load_rules call in progress on the shared manager
    reader,       \* an is_authorized call in progress on the shared manager
    pdb,          \* the photos service's database: resource id -> realm
    pcall,        \* the latest GET /authorize of the photos service and its answer
    loop,         \* the event loop thread of a gateway worker: the request whose
                  \* handler holds it, or LoopFree
    inflight,     \* the GET /authorize requests that worker accepted
    lockfile,     \* /tmp/photos_scheduler.lock
    procs         \* the worker processes of the photos service

engineVars == <<source, constructed, rules, loadStatus, call>>

gatewayVars == <<now, idp, db, session, req, resp, last>>

reloadVars == <<loader, reader>>

photosVars == <<pdb, pcall>>

loopVars == <<loop, inflight>>

schedulerVars == <<lockfile, procs>>

vars ==
    <<source, constructed, rules, loadStatus, call, now, idp, db, session, req, resp,
      last, loader, reader, pdb, pcall, loop, inflight, lockfile, procs>>

NoCall ==
    [op |-> "none", uri |-> <<>>, roles |-> <<>>, request |-> NoRequest,
     remote |-> NotContacted, result |-> "none", rule |-> 0, outbound |-> <<>>]

(***************************************************************************)
(* AuthorizationManager.load_rules                                         *)
(***************************************************************************)
\* faulty variant: a row needs three fields to be a rule
LoadRow_mThreeFields(acc, line) ==
    LET row == CsvRow(line) IN
    IF row = <<>> \/ StartsWith(Strip(row[1]), "#") THEN acc
    ELSE IF Len(row) < 3 THEN acc
    ELSE Append(acc, AuthorizationRule(row[1], row[2], row[3]))

\* the body of the loop over the rows of the reader
LoadRow(acc, line) ==
    LET row == CsvRow(line) IN
    IF row = <<>> \/ StartsWith(Strip(row[1]), "#") THEN acc
    ELSE IF Len(row) < 2 THEN acc
    ELSE Append(acc, AuthorizationRule(row[1], row[2],
                                       IF Len(row) > 2 THEN row[3] ELSE None))

\* self.rules after the loop has processed the first k lines
RECURSIVE LoadRows(_, _)
LoadRows(lines, k) ==
    IF k = 0 THEN <<>> ELSE LoadRow(LoadRows(lines, k - 1), lines[k])

\* load_rules on source src; fail = -1 when every read succeeds, otherwise the
\* number of rows processed before a read raises (caught by except Exception)
Load(src, fail) ==
    IF ~src.exists THEN [rules |-> <<>>, status |-> "not_found"]
    ELSE IF fail = -1
        THEN [rules |-> LoadRows(src.lines, Len(src.lines)), status |-> "loaded"]
    ELSE [rules |-> LoadRows(src.lines, fail), status |-> "error"]

(***************************************************************************)
(* AuthorizationManager._delegate_authorization                            *)
(* result is "True", "False" or "raise" (an exception leaves the method).  *)
(***************************************************************************)
\* faulty variant: every status below 400 counts as success
DelegateAuthorization_mRedirectOk(rule, uri, user_roles, request, remote) ==
    IF ~request.present
    THEN [result |-> "False", remote |-> NotContacted, outbound |-> <<>>]
    ELSE [result |-> IF remote.kind = "status" /\ remote.status < 400
                     THEN "True" ELSE "False",
          remote |-> remote,
          outbound |-> <<[url |-> delegation_url(rule) \o S_authorize, uri |-> uri,
                          roles |-> Join(user_roles, ","), session |-> request.session]>>]

\* faulty variant: the outbound call is made without a request object too
DelegateAuthorization_mNoRequestCheck(rule, uri, user_roles, request, remote) ==
    [result |-> IF remote.kind = "status" /\ 200 <= remote.status /\ remote.status < 300
                THEN "True" ELSE "False",
     remote |-> remote,
     outbound |-> <<[url |-> delegation_url(rule) \o S_authorize, uri |-> uri,
                     roles |-> Join(user_roles, ","), session |-> request.session]>>]

DelegateAuthorization(rule, uri, user_roles, request, remote) ==
    IF ~request.present
    THEN [result |-> "False", remote |-> NotContacted, outbound |-> <<>>]
    ELSE
        LET sent == [url     |-> delegation_url(rule) \o S_authorize,
                     uri     |-> uri,
                     roles   |-> Join(user_roles, ","),
                     session |-> request.session]
        IN [result |->
                CASE remote.kind = "status" ->
                        IF 200 <= remote.status /\ remote.status < 300
                        THEN "True" ELSE "False"
                  \* the handler's logger.error(..., e) reads a local e that
                  \* this except clause never bound: UnboundLocalError
                  [] remote.kind = "timeout" -> "raise"
                  [] remote.kind = "request_error" -> "False"
                  [] OTHER -> "False",
            remote |-> remote,
            outbound |-> <<sent>>]

(***************************************************************************)
(* AuthorizationManager.is_authorized                                      *)
(***************************************************************************)
RECURSIVE IsAuthorizedFrom(_, _, _, _, _, _)
IsAuthorizedFrom(rs, i, uri, user_roles, request, remote) ==
    IF i > Len(rs)
    THEN [result |-> "False", remote |-> NotContacted, outbound |-> <<>>, rule |-> 0]
    ELSE IF matches_uri(rs[i], uri) /\ applies_to_role(rs[i], user_roles)
    THEN
        IF rs[i].action = S_allow
        THEN
            IF is_delegated(rs[i])
            THEN
                LET d == DelegateAuthorization(rs[i], uri, user_roles, request, remote)
                IN [result |-> d.result, remote |-> d.remote,
                    outbound |-> d.outbound, rule |-> i]
            ELSE [result |-> "True", remote |-> NotContacted, outbound |-> <<>>, rule |-> i]
        ELSE [result |-> "False", remote |-> NotContacted, outbound |-> <<>>, rule |-> i]
    ELSE IsAuthorizedFrom(rs, i + 1, uri, user_roles, request, remote)

\* faulty variant: no matching rule means allow
IsAuthorized_mDefaultAllow(rs, uri, user_roles, request, remote) ==
    LET r == IsAuthorizedFrom(rs, 1, uri, user_roles, request, remote) IN
    IF r.rule = 0 THEN [r EXCEPT !.result = "True"] ELSE r

\* faulty variant: allow rules take precedence over deny rules, whatever their order
IsAuthorized_mAllowFirst(rs, uri, user_roles, request, remote) ==
    LET allows == SelectSeq(rs, LAMBDA x : x.action = S_allow)
        r == IsAuthorizedFrom(allows, 1, uri, user_roles, request, remote)
    IN [r EXCEPT !.rule = IF r.rule = 0 THEN 0 ELSE 1]

IsAuthorized(rs, uri, user_roles, request, remote) ==
    IsAuthorizedFrom(rs, 1, uri, user_roles, request, remote)

(***************************************************************************)
(* Operations                                                              *)
(***************************************************************************)
\* get_authorization_manager on its first call: AuthorizationManager() loads the rules
Construct ==
    /\ ~constructed
    /\ constructed' = TRUE
    /\ \E fail \in -1..Len(source.lines) :
        \E l \in {Load(source, fail)} :
        /\ rules' = l.rules
        /\ loadStatus' = l.status
    /\ UNCHANGED <<source, call>>
    /\ UNCHANGED gatewayVars
    /\ UNCHANGED reloadVars
    /\ UNCHANGED photosVars
    /\ UNCHANGED loopVars
    /\ UNCHANGED schedulerVars

\* an explicit reload
load_rules ==
    /\ constructed
    /\ call = NoCall
    /\ \E fail \in -1..Len(source.lines) :
        \E l \in {Load(source, fail)} :
        /\ rules' = l.rules
        /\ loadStatus' = l.status
    /\ UNCHANGED <<source, constructed, call>>
    /\ UNCHANGED gatewayVars
    /\ UNCHANGED reloadVars
    /\ UNCHANGED photosVars
    /\ UNCHANGED loopVars
    /\ UNCHANGED schedulerVars

\* whether is_authorized with these arguments reaches the outbound call
Contacts(rs, uri, user_roles, request) ==
    IsAuthorized(rs, uri, user_roles, request, NotContacted).outbound # <<>>

\* a call of is_authorized on the built manager; the delegation target's
\* behaviour is an input of the call only when the call reaches it
is_authorized ==
    /\ constructed
    /\ call = NoCall
    /\ \E uri \in Paths, user_roles \in RoleLists, request \in Requests :
        \E remote \in (IF Contacts(rules, uri, user_roles, request)
                       THEN RemoteOutcomes ELSE {NotContacted}) :
            \E r \in {IsAuthorized(rules, uri, user_roles, request, remote)} :
            call' = [op |-> "is_authorized", uri |-> uri, roles |-> user_roles,
                     request |-> request, remote |-> r.remote, result |-> r.result,
                     rule |-> r.rule, outbound |-> r.outbound]
    /\ UNCHANGED <<source, constructed, rules, loadStatus>>
    /\ UNCHANGED gatewayVars
    /\ UNCHANGED reloadVars
    /\ UNCHANGED photosVars
    /\ UNCHANGED loopVars
    /\ UNCHANGED schedulerVars

\* the caller takes the result; the manager is ready for the next call
Return ==
    /\ call # NoCall
    /\ call' = NoCall
    /\ UNCHANGED <<source, constructed, rules, loadStatus>>
    /\ UNCHANGED gatewayVars
    /\ UNCHANGED reloadVars
    /\ UNCHANGED photosVars
    /\ UNCHANGED loopVars
    /\ UNCHANGED schedulerVars

(***************************************************************************)
(* load_rules and is_authorized statement by statement.  Both are plain    *)
(* methods of the one shared manager, without a lock; when they are called *)
(* from two threads their statements interleave at the steps below.  A     *)
(* Python list iterator holds the list object it was created on and an     *)
(* index: it sees what is appended to that object until it is exhausted,   *)
(* and it is not affected when self.rules is bound to another list.        *)
(* Every read of the source succeeds here (Load models the failing reads). *)
(***************************************************************************)
\* the lines a rule source of the reload specification is made of
ReloadLines == {L_denyUsersPublic, L_allowAuthAdmin, L_allowAuthOpen}

ReloadSources == Sources(ReloadLines, MaxReloadLines) \ {[exists |-> FALSE, lines |-> <<>>]}

LoaderIdle == [pc |-> "idle", pos |-> 0, old |-> <<>>]

ReaderIdle ==
    [pc |-> "idle", uri |-> <<>>, roles |-> <<>>, idx |-> 0, live |-> TRUE,
     list |-> <<>>, tables |-> {}]

ReloadIdle == loader = LoaderIdle /\ reader = ReaderIdle

\* the roles file is replaced while the manager is at rest
rewrite ==
    /\ loader.pc = "idle"
    /\ reader.pc = "idle"
    /\ \E src \in ReloadSources \ {source} : source' = src
    /\ UNCHANGED <<constructed, rules, loadStatus, call, loader, reader>>
    /\ UNCHANGED gatewayVars
    /\ UNCHANGED photosVars
    /\ UNCHANGED loopVars
    /\ UNCHANGED schedulerVars

\* load_rules, "self.rules = []": the manager's table is a new, empty list; an
\* iterator created on the previous list keeps that list
reload_begin ==
    /\ constructed
    /\ loader.pc = "idle"
    /\ loader' = [pc |-> "rows", pos |-> 0, old |-> rules]
    /\ rules' = <<>>
    /\ loadStatus' = "loading"
    /\ reader' = IF reader.pc = "iter" /\ reader.live
                  THEN [reader EXCEPT !.live = FALSE, !.list = rules]
                  ELSE reader
    /\ UNCHANGED <<source, constructed, call>>
    /\ UNCHANGED gatewayVars
    /\ UNCHANGED photosVars
    /\ UNCHANGED loopVars
    /\ UNCHANGED schedulerVars

\* load_rules, one turn of the loop over the rows
reload_row ==
    /\ loader.pc = "rows"
    /\ source.exists
    /\ loader.pos < Len(source.lines)
    /\ rules' = LoadRow(rules, source.lines[loader.pos + 1])
    /\ loader' = [loader EXCEPT !.pos = loader.pos + 1]
    /\ UNCHANGED <<source, constructed, loadStatus, call, reader>>
    /\ UNCHANGED gatewayVars
    /\ UNCHANGED photosVars
    /\ UNCHANGED loopVars
    /\ UNCHANGED schedulerVars

\* load_rules, after the loop (or after open() found no file)
reload_end ==
    /\ loader.pc = "rows"
    /\ ~source.exists \/ loader.pos = Len(source.lines)
    /\ loader' = LoaderIdle
    /\ loadStatus' = IF source.exists THEN "loaded" ELSE "not_found"
    /\ reader' = IF reader.pc = "iter"
                  THEN [reader EXCEPT !.tables = reader.tables \cup {rules}]
                  ELSE reader
    /\ UNCHANGED <<source, constructed, rules, call>>
    /\ UNCHANGED gatewayVars
    /\ UNCHANGED photosVars
    /\ UNCHANGED loopVars
    /\ UNCHANGED schedulerVars

\* is_authorized, "for rule in self.rules": the iterator is created on the list
\* self.rules is bound to now.  reader.tables collects the complete tables of
\* the manager during the call: the one installed when the call began (the
\* previous one when a load is running), and each one a load completes
read_begin ==
    /\ constructed
    /\ reader.pc = "idle"
    /\ call = NoCall
    /\ \E uri \in Paths, user_roles \in RoleLists :
        reader' = [pc |-> "iter", uri |-> uri, roles |-> user_roles, idx |-> 0,
                   live |-> TRUE, list |-> <<>>,
                   tables |-> IF loader.pc = "idle" THEN {rules} ELSE {loader.old}]
    /\ UNCHANGED <<source, constructed, rules, loadStatus, call, loader>>
    /\ UNCHANGED gatewayVars
    /\ UNCHANGED photosVars
    /\ UNCHANGED loopVars
    /\ UNCHANGED schedulerVars

\* the list the reader's iterator is on
ReaderList == IF reader.live THEN rules ELSE reader.list

\* is_authorized, one turn of the loop: the next rule of the iterator decides
\* or is passed over; an exhausted iterator ends the loop with "return False"
read_step ==
    /\ reader.pc = "iter"
    /\ LET request == [present |-> TRUE, session |-> None]
           done(result, rule) ==
               /\ call' = [op |-> "is_authorized", uri |-> reader.uri,
                            roles |-> reader.roles, request |-> request,
                            remote |-> NotContacted, result |-> result, rule |-> rule,
                            outbound |-> <<>>]
               /\ reader' = [reader EXCEPT !.pc = "done"]
       IN IF reader.idx >= Len(ReaderList)
          THEN done("False", 0)
          ELSE \E r \in {IsAuthorizedFrom(<<ReaderList[reader.idx + 1]>>, 1, reader.uri,
                                           reader.roles, request, NotContacted)} :
                IF r.rule = 1
                THEN done(r.result, reader.idx + 1)
                ELSE /\ reader' = [reader EXCEPT !.idx = reader.idx + 1]
                     /\ call' = call
    /\ UNCHANGED <<source, constructed, rules, loadStatus, loader>>
    /\ UNCHANGED gatewayVars
    /\ UNCHANGED photosVars
    /\ UNCHANGED loopVars
    /\ UNCHANGED schedulerVars

\* the caller takes the result
read_return ==
    /\ reader.pc = "done"
    /\ reader' = ReaderIdle
    /\ call' = NoCall
    /\ UNCHANGED <<source, constructed, rules, loadStatus, loader>>
    /\ UNCHANGED gatewayVars
    /\ UNCHANGED photosVars
    /\ UNCHANGED loopVars
    /\ UNCHANGED schedulerVars

(***************************************************************************)
(* The gateway: identity resolution (firebase_util.py) and the             *)
(* GET /authorize handler (main.py).                                       *)
(***************************************************************************)
\* validity of the user info cache, in minutes
CACHE_VALID_MINUTES == 60

\* session credentials (values of the cookie "session") known to the provider
K_user == <<"k", "1">>
K_anon == <<"k", "2">>

Credentials == {K_user, K_anon}

\* what a request may carry as its session cookie: none, empty, blank, a credential
Cookies == {None, <<>>, <<" ">>} \cup Credentials

E_user == <<"u", "@", "x">>
E_admin == <<"a", "@", "x">>

Emails == {E_user, E_admin}

\* os.getenv("ADMIN_EMAIL", "")
ADMIN_EMAIL == E_admin

\* answers of auth.verify_session_cookie: the claims of a verified credential
\* (with or without an email), or a rejection (expired, revoked, invalid)
Verified(email) == [valid |-> TRUE, email |-> email]

Rejected == [valid |-> FALSE, email |-> None]

\* the two families of exceptions a rejection is raised as: the ID-token errors
\* verify_cookie catches, and the session-cookie errors it does not catch
RejectionErrors == {"IdTokenError", "SessionCookieError"}

\* stored users
NoUser == [exists |-> FALSE, roles |-> <<>>, enabled |-> FALSE]

StoredUser(roles, enabled) == [exists |-> TRUE, roles |-> roles, enabled |-> enabled]

\* the user stores of the model: empty, or every email stored with the same
\* record (an enabled user, a disabled user)
UserStores ==
    {[e \in Emails |-> NoUser],
     [e \in Emails |-> StoredUser(S_public \o <<",">> \o S_protected, TRUE)],
     [e \in Emails |-> StoredUser(<<"A", "d", "m", "i", "n", ",", " ", "p", "r", "i", "v", "a", "t", "e">>, FALSE)]}

\* UserBase(roles="public"): the identity of a caller who is not logged in
Anonymous == [email |-> None, roles |-> S_public, enabled |-> TRUE]

\* hashlib.sha256(cookie).hexdigest()[:16], as a table of opaque digests
Sha256Prefix(cookie) ==
    CASE cookie = K_user -> <<"9", "f">>
      [] cookie = K_anon -> <<"3", "c">>
      [] OTHER -> <<"e", "3">>

\* faulty variant: the hash is left out of the cache key
cache_key_mRaw(cookie) ==
    <<"u", "s", "e", "r", "_", "i", "n", "f", "o", "_">> \o cookie

cache_key(cookie) ==
    <<"u", "s", "e", "r", "_", "i", "n", "f", "o", "_">> \o Sha256Prefix(cookie)

CacheKeys == {cache_key(c) : c \in Credentials}

NoEntry == [present |-> FALSE, user |-> Anonymous, cached_at |-> 0]

\* request.session, a dict: {} when the caller's session is new
EmptySession == [k \in {} |-> NoEntry]

\* request.session[key] when "key in request.session", NoEntry otherwise
Entry(sess, key) == IF key \in DOMAIN sess THEN sess[key] ELSE NoEntry

\* request.session[key] = entry
Put(sess, key, entry) ==
    [k \in DOMAIN sess \cup {key} |-> IF k = key THEN entry ELSE sess[k]]

\* del request.session[key]
Del(sess, key) == [k \in DOMAIN sess \ {key} |-> sess[k]]

\* the characters of role strings, in code point order
CodePoints ==
    <<" ", "!", ",", "A", "a", "b", "c", "d", "e", "i", "l", "m", "n", "o", "p",
      "r", "t", "u", "v">>

Ord(c) == CHOOSE i \in 1..Len(CodePoints) : CodePoints[i] = c

\* a < b for Python str
RECURSIVE StrLess(_, _)
StrLess(a, b) ==
    IF a = <<>> THEN b # <<>>
    ELSE IF b = <<>> THEN FALSE
    ELSE IF Head(a) = Head(b) THEN StrLess(Tail(a), Tail(b))
    ELSE Ord(Head(a)) < Ord(Head(b))

\* sorted(set of str)
RECURSIVE Sorted(_)
Sorted(S) ==
    IF S = {} THEN <<>>
    ELSE LET m == CHOOSE x \in S : \A y \in S \ {x} : StrLess(x, y)
         IN <<m>> \o Sorted(S \ {m})

\* verify_cookie: the stored user of the verified email, the anonymous identity
\* when the provider reports no email, or an exception: kind "http500" is
\* HTTPException(500), kind "error" any other exception
verify_cookie(cookie, idpv, dbv, exc) ==
    IF ~idpv[cookie].valid
    THEN [kind |-> IF exc = "IdTokenError" THEN "http500" ELSE "error", user |-> Anonymous]
    ELSE IF idpv[cookie].email = None
    THEN [kind |-> "user", user |-> Anonymous]
    ELSE IF dbv[idpv[cookie].email].exists
    THEN [kind |-> "user",
          user |-> [email |-> idpv[cookie].email,
                    roles |-> dbv[idpv[cookie].email].roles,
                    enabled |-> dbv[idpv[cookie].email].enabled]]
    \* UserCreate(user) passes the model positionally: TypeError
    ELSE [kind |-> "error", user |-> Anonymous]

\* faulty variant: "public" is not added to the roles
NormalizedRoles_mNoPublic(user) ==
    LET parts == Split(user.roles, ",")
        stripped == {Strip(parts[i]) : i \in 1..Len(parts)}
        roles == stripped \cup (IF user.email = ADMIN_EMAIL THEN {S_admin} ELSE {})
    IN Join(Sorted(roles), ",")

\* the roles verify_user gives a freshly verified user
NormalizedRoles(user) ==
    LET parts == Split(user.roles, ",")
        stripped == {Strip(parts[i]) : i \in 1..Len(parts)}
        roles == stripped \cup {S_public}
                 \cup (IF user.email = ADMIN_EMAIL THEN {S_admin} ELSE {})
    IN Join(Sorted(roles), ",")

\* verify_user after its cache lookup: verify_cookie (one call of the provider),
\* the roles normalised, the cache entry written
Refresh(cookie, sess, t, idpv, dbv, exc) ==
    LET key == cache_key(cookie)
        v == verify_cookie(cookie, idpv, dbv, exc)
    IN IF v.kind # "user"
       THEN [kind |-> v.kind, user |-> Anonymous, session |-> sess, asked |-> TRUE,
             contacts |-> 1]
       ELSE
           LET u == [v.user EXCEPT !.roles = NormalizedRoles(v.user)] IN
           [kind |-> "user", user |-> u, asked |-> TRUE, contacts |-> 1,
            session |-> Put(sess, key, [present |-> TRUE, user |-> u, cached_at |-> t])]

NoCredential(cookie) == cookie = None \/ cookie = <<>> \/ Strip(cookie) = <<>>

\* the return of verify_user that does not involve the provider
Local(user, sess) ==
    [kind |-> "user", user |-> user, session |-> sess, asked |-> FALSE, contacts |-> 0]

\* faulty variant: the cache is never consulted
verify_user_mNoCache(cookie, sess, t, idpv, dbv, exc) ==
    IF NoCredential(cookie) THEN Local(Anonymous, sess)
    ELSE Refresh(cookie, sess, t, idpv, dbv, exc)

\* faulty variant: a cached entry never expires
verify_user_mNoExpiry(cookie, sess, t, idpv, dbv, exc) ==
    IF NoCredential(cookie) THEN Local(Anonymous, sess)
    ELSE IF Entry(sess, cache_key(cookie)).present
    THEN Local(Entry(sess, cache_key(cookie)).user, sess)
    ELSE Refresh(cookie, sess, t, idpv, dbv, exc)

\* faulty variant: the anonymous identity of a request without credential is cached
verify_user_mCacheAnonymous(cookie, sess, t, idpv, dbv, exc) ==
    IF NoCredential(cookie)
    THEN Local(Anonymous, Put(sess, cache_key(<<>>),
                              [present |-> TRUE, user |-> Anonymous, cached_at |-> t]))
    ELSE IF Entry(sess, cache_key(cookie)).present
            /\ t - Entry(sess, cache_key(cookie)).cached_at < CACHE_VALID_MINUTES
    THEN Local(Entry(sess, cache_key(cookie)).user, sess)
    ELSE Refresh(cookie, sess, t, idpv, dbv, exc)

\* verify_user: the identity of the request, the session store it leaves, and
\* how many times it called the provider
verify_user(cookie, sess, t, idpv, dbv, exc) ==
    IF NoCredential(cookie) THEN Local(Anonymous, sess)
    ELSE IF Entry(sess, cache_key(cookie)).present
            /\ t - Entry(sess, cache_key(cookie)).cached_at < CACHE_VALID_MINUTES
    THEN Local(Entry(sess, cache_key(cookie)).user, sess)
    ELSE Refresh(cookie, sess, t, idpv, dbv, exc)

\* no verify_user call on a credential has returned yet
NoLast ==
    [present |-> FALSE, cookie |-> None, at |-> 0, roles |-> <<>>, session |-> EmptySession]

\* the record of a verify_user call: kept when the call was made without a
\* credential or raised, replaced when a call on a credential returned
LastAfter(prev, cookie, vu, t) ==
    IF vu.kind = "user" /\ ~NoCredential(cookie)
    THEN [present |-> TRUE, cookie |-> cookie, at |-> t, roles |-> vu.user.roles,
          session |-> vu.session]
    ELSE prev

NoGatewayRequest ==
    [cookie |-> None, header |-> None, asked |-> FALSE, contacts |-> 0, kind |-> "none",
     user |-> Anonymous, prev |-> NoLast, before |-> EmptySession]

NoResponse == [status |-> 0, header |-> None, user |-> None, roles |-> None, detail |-> "none"]

\* the role list the handler derives from the identity's roles string
UserRoles(roles) ==
    LET parts == Split(IF roles = <<>> THEN S_public ELSE roles, ",")
    IN SelectSeq([i \in 1..Len(parts) |-> Strip(parts[i])], LAMBDA r : r # <<>>)

\* request.headers.get("X-Forwarded-Uri", "/")
OriginalUri(header) == IF header = None THEN <<"/">> ELSE header

\* faulty variant: the roles header is set whatever the decision
AuthorizeResponse_mHeaderAlways(result, user) ==
    CASE result = "True" ->
            [status |-> 200, header |-> IF user.roles = <<>> THEN S_public ELSE user.roles,
             user |-> user.email, roles |-> user.roles, detail |-> "authorized"]
      [] result = "False" ->
            [NoResponse EXCEPT !.status = 403, !.detail = "Access denied",
                               !.header = IF user.roles = <<>> THEN S_public ELSE user.roles]
      [] OTHER ->
            [NoResponse EXCEPT !.status = 500,
                               !.detail = "Internal server error in authorize"]

\* what the handler answers once is_authorized returned (True, False) or raised
AuthorizeResponse(result, user) ==
    CASE result = "True" ->
            [status |-> 200, header |-> IF user.roles = <<>> THEN S_public ELSE user.roles,
             user |-> user.email, roles |-> user.roles, detail |-> "authorized"]
      [] result = "False" ->
            [NoResponse EXCEPT !.status = 403, !.detail = "Access denied"]
      [] OTHER ->
            [NoResponse EXCEPT !.status = 500,
                               !.detail = "Internal server error in authorize"]

\* the handler of GET /authorize on table rs: its response, the session store
\* it leaves, the is_authorized call it made, whether it reached the manager
Authorize(rs, cookie, header, sess, t, idpv, dbv, exc, remote) ==
    LET vu == verify_user(cookie, sess, t, idpv, dbv, exc) IN
    IF vu.kind = "http500"
    THEN [resp |-> [NoResponse EXCEPT !.status = 500, !.detail = "Invalid Token"],
          session |-> vu.session, call |-> NoCall, reached |-> FALSE, vu |-> vu]
    ELSE IF vu.kind = "error"
    THEN [resp |-> [NoResponse EXCEPT !.status = 500,
                                      !.detail = "Internal server error in authorize"],
          session |-> vu.session, call |-> NoCall, reached |-> FALSE, vu |-> vu]
    ELSE
        LET user_roles == UserRoles(vu.user.roles)
            uri == OriginalUri(header)
            request == [present |-> TRUE, session |-> cookie]
            r == IsAuthorized(rs, uri, user_roles, request, remote)
            made == [op |-> "is_authorized", uri |-> uri, roles |-> user_roles,
                     request |-> request, remote |-> r.remote, result |-> r.result,
                     rule |-> r.rule, outbound |-> r.outbound]
        IN [session |-> vu.session, call |-> made, reached |-> TRUE, vu |-> vu,
            resp |-> AuthorizeResponse(r.result, vu.user)]

\* the request paths of the gateway specification
GatewayUris ==
    {None, <<"/", "a", "/", "u">>, <<"/", "a", "/", "l">>, <<"/", "p", "/", "x">>}

\* GET /authorize
authorize ==
    /\ resp = NoResponse
    /\ \E cookie \in Cookies, header \in GatewayUris,
          fail \in (IF constructed THEN {-1} ELSE -1..Len(source.lines)) :
       \E exc \in (IF cookie \in Credentials /\ ~idp[cookie].valid
                   THEN RejectionErrors ELSE {"IdTokenError"}) :
        LET l == IF constructed
                 THEN [rules |-> rules, status |-> loadStatus]
                 ELSE Load(source, fail)
            probe == Authorize(l.rules, cookie, header, session, now, idp, db, exc,
                               NotContacted)
        IN \E remote \in (IF probe.call.outbound # <<>>
                          THEN RemoteOutcomes ELSE {NotContacted}) :
            \E a \in {Authorize(l.rules, cookie, header, session, now, idp, db, exc, remote)} :
               /\ resp' = a.resp
               /\ req' = [cookie |-> cookie, header |-> header, asked |-> a.vu.asked,
                           contacts |-> a.vu.contacts,
                           kind |-> a.vu.kind, user |-> a.vu.user,
                           prev |-> last, before |-> session]
               /\ session' = a.session
               /\ last' = LastAfter(last, cookie, a.vu, now)
               /\ call' = a.call
               /\ constructed' = (constructed \/ a.reached)
               /\ rules' = IF a.reached THEN l.rules ELSE rules
               /\ loadStatus' = IF a.reached THEN l.status ELSE loadStatus
    /\ UNCHANGED <<source, now, idp, db>>
    /\ UNCHANGED reloadVars
    /\ UNCHANGED photosVars
    /\ UNCHANGED loopVars
    /\ UNCHANGED schedulerVars

\* the handler of GET /me: the identity verify_user returns, or an error
Me(cookie, sess, t, idpv, dbv, exc) ==
    IF cookie = None \/ cookie = <<>>
    THEN [resp |-> [status |-> 200, header |-> None, user |-> None, roles |-> S_public,
                    detail |-> "me"],
          session |-> sess,
          vu |-> [kind |-> "none", user |-> Anonymous, session |-> sess, asked |-> FALSE,
                  contacts |-> 0]]
    ELSE
        LET vu == verify_user(cookie, sess, t, idpv, dbv, exc) IN
        [session |-> vu.session, vu |-> vu,
         resp |->
            CASE vu.kind = "user" ->
                    [status |-> 200, header |-> None, user |-> vu.user.email,
                     roles |-> vu.user.roles, detail |-> "me"]
              [] vu.kind = "http500" ->
                    [NoResponse EXCEPT !.status = 500, !.detail = "Invalid Token"]
              \* the handler's UserResponse({"roles": "public"}) passes a positional
              \* argument to the model: TypeError, answered 500 by the server
              [] OTHER ->
                    [NoResponse EXCEPT !.status = 500, !.detail = "Internal Server Error"]]

\* GET /me
me ==
    /\ resp = NoResponse
    /\ \E cookie \in Cookies :
       \E exc \in (IF cookie \in Credentials /\ ~idp[cookie].valid
                   THEN RejectionErrors ELSE {"IdTokenError"}) :
        \E a \in {Me(cookie, session, now, idp, db, exc)} :
           /\ resp' = a.resp
           /\ req' = [cookie |-> cookie, header |-> None, asked |-> a.vu.asked,
                           contacts |-> a.vu.contacts,
                       kind |-> a.vu.kind, user |-> a.vu.user,
                       prev |-> last, before |-> session]
           /\ session' = a.session
           /\ last' = LastAfter(last, cookie, a.vu, now)
    /\ UNCHANGED <<source, constructed, rules, loadStatus, call, now, idp, db>>
    /\ UNCHANGED reloadVars
    /\ UNCHANGED photosVars
    /\ UNCHANGED loopVars
    /\ UNCHANGED schedulerVars

\* faulty variant: logout leaves the session store alone
Logout_mKeep(cookie, sess) == sess

\* the session store POST /logout leaves: the entry of the request's cookie removed
Logout(cookie, sess) ==
    IF cookie = None \/ cookie = <<>> THEN sess ELSE Del(sess, cache_key(cookie))

\* POST /logout
logout ==
    /\ resp = NoResponse
    /\ \E cookie \in Cookies :
        /\ session' = Logout(cookie, session)
        /\ req' = [NoGatewayRequest EXCEPT !.cookie = cookie, !.before = session]
        /\ resp' = [NoResponse EXCEPT !.status = 302, !.detail = "logout"]
    /\ UNCHANGED <<source, constructed, rules, loadStatus, call, now, idp, db, last>>
    /\ UNCHANGED reloadVars
    /\ UNCHANGED photosVars
    /\ UNCHANGED loopVars
    /\ UNCHANGED schedulerVars

\* the response leaves the gateway
Deliver ==
    /\ resp # NoResponse
    /\ resp' = NoResponse
    /\ req' = NoGatewayRequest
    /\ call' = NoCall
    /\ UNCHANGED <<source, constructed, rules, loadStatus, now, idp, db, session, last>>
    /\ UNCHANGED reloadVars
    /\ UNCHANGED photosVars
    /\ UNCHANGED loopVars
    /\ UNCHANGED schedulerVars

\* time passes
Tick ==
    /\ resp = NoResponse
    /\ now < TickMinutes * MaxTicks
    /\ now' = now + TickMinutes
    /\ UNCHANGED <<source, constructed, rules, loadStatus, call, idp, db, session, req,
                    resp, last>>
    /\ UNCHANGED reloadVars
    /\ UNCHANGED photosVars
    /\ UNCHANGED loopVars
    /\ UNCHANGED schedulerVars

\* the provider stops accepting a credential (it expired or was revoked)
Revoke ==
    /\ resp = NoResponse
    /\ \E c \in Credentials :
        /\ idp[c].valid
        /\ idp' = [idp EXCEPT ![c] = Rejected]
    /\ UNCHANGED <<source, constructed, rules, loadStatus, call, now, db, session, req,
                    resp, last>>
    /\ UNCHANGED reloadVars
    /\ UNCHANGED photosVars
    /\ UNCHANGED loopVars
    /\ UNCHANGED schedulerVars

(***************************************************************************)
(* The photos service: GET /authorize (photos/app/api/authorize.py), the   *)
(* target of the gateway's delegated rules.                                *)
(*                                                                         *)
(* Python values of different types meet in "item.realm in roles", so      *)
(* values carry their type: a str, or a member of the int enum Realm.      *)
(***************************************************************************)
Str(s) == [type |-> "str", v |-> s]

\* class Realm(int, Enum): PUBLIC = 1, PROTECTED = 2, PRIVATE = 3
RealmMember(n) == [type |-> "Realm", v |-> n]

S_private == <<"p", "r", "i", "v", "a", "t", "e">>

\* the realm labels read_db gives a resource: the lower-cased top folder name
RealmLabels == {S_public, S_protected, S_private}

\* validation of the field "realm" of a resource built from its label:
\* Realm._missing_ turns the label into the member of that name
Realm(label) ==
    CASE label = S_public -> RealmMember(1)
      [] label = S_protected -> RealmMember(2)
      [] label = S_private -> RealmMember(3)

\* a == b: Realm members compare as int, and an int never equals a str
PyEq(a, b) == a.type = b.type /\ a.v = b.v

\* x in list
PyIn(x, list) == \E i \in 1..Len(list) : PyEq(list[i], x)

\* the components os.path.normpath keeps: empty and "." components dropped,
\* ".." removing the component before it (at the root of an absolute path it
\* is dropped, in a relative path it is kept)
RECURSIVE NormComps(_, _, _)
NormComps(segs, acc, absolute) ==
    IF segs = <<>> THEN acc
    ELSE IF Head(segs) = <<>> \/ Head(segs) = <<".">>
        THEN NormComps(Tail(segs), acc, absolute)
    ELSE IF Head(segs) = <<".", ".">>
        THEN IF acc # <<>> /\ acc[Len(acc)] # <<".", ".">>
             THEN NormComps(Tail(segs), SubSeq(acc, 1, Len(acc) - 1), absolute)
             ELSE IF absolute THEN NormComps(Tail(segs), acc, absolute)
             ELSE NormComps(Tail(segs), Append(acc, Head(segs)), absolute)
    ELSE NormComps(Tail(segs), Append(acc, Head(segs)), absolute)

\* the number of leading slashes normpath keeps: two when there are exactly two
InitialSlashes(uri) ==
    IF ~StartsWith(uri, "/") THEN 0
    ELSE IF Len(uri) >= 2 /\ uri[2] = "/" /\ ~(Len(uri) >= 3 /\ uri[3] = "/") THEN 2
    ELSE 1

\* os.path.normpath(uri).split(os.sep)
NormPathSplit(uri) ==
    LET n == InitialSlashes(uri)
        comps == NormComps(Split(uri, "/"), <<>>, n > 0)
    IN IF n = 0 THEN (IF comps = <<>> THEN << <<".">> >> ELSE comps)
       ELSE IF comps = <<>> THEN [i \in 1..(n + 1) |-> <<>>]
       ELSE [i \in 1..n |-> <<>>] \o comps

S_photos == <<"p", "h", "o", "t", "o", "s">>
S_albums == <<"a", "l", "b", "u", "m", "s">>
S_api == <<"a", "p", "i">>

\* the resource ids of the model: photo 1 and album 2 are known, 9 is not
Id_photo == <<"1">>
Id_album == <<"2">>
Id_unknown == <<"9">>

\* dict.get(uuid) is not None
Known(dict, uuid) == uuid \in DOMAIN dict

\* the role list of the handler: the header split at commas, stripped, lower-cased
ForwardedRoles(header) ==
    LET parts == Split(IF header = None THEN S_public ELSE header, ",")
    IN [i \in 1..Len(parts) |-> Str(Lower(Strip(parts[i])))]

\* item.realm in roles
RealmAllows(item, roles) == PyIn(item.realm, roles)

\* the status GET /authorize of the photos service answers with
AuthorizeAccess(dbv, uri_header, roles_header) ==
    IF uri_header = None \/ uri_header = <<>> THEN 400
    ELSE
        LET roles == ForwardedRoles(roles_header)
            path == NormPathSplit(uri_header)
        IN \* path[3], path[4] of a shorter list: IndexError
           IF Len(path) < 5 THEN 500
           ELSE LET kind == path[4]
                    uuid == path[5]
                    dict == IF kind = S_photos THEN dbv.photos ELSE dbv.albums
                IN IF kind \notin {S_photos, S_albums} THEN 403
                   \* item is None, item.realm: AttributeError
                   ELSE IF ~Known(dict, uuid) THEN 500
                   ELSE IF RealmAllows(dict[uuid], roles) THEN 200
                   ELSE 403

Uri(comps) == <<"/">> \o Join(comps, "/")

\* the X-Forwarded-Uri headers of the model
PhotoUris ==
    {None,
     Uri(<<S_photos, S_api, S_photos, Id_photo>>),
     Uri(<<S_photos, S_api, S_photos, Id_photo, <<"i", "m", "g">> >>),
     Uri(<<S_photos, S_api, S_albums, Id_album>>),
     Uri(<<S_photos, S_api, <<".">>, S_albums, <<>>, Id_album>>),
     Uri(<<S_photos, S_api, S_photos, Id_unknown>>),
     Uri(<<S_photos, S_api, <<"d", "o", "c">>, Id_photo>>),
     Uri(<<S_photos, S_api, S_photos>>)}

\* the X-Forwarded-Roles headers of the model
PhotoRoleHeaders ==
    {None, S_public, S_private, S_admin,
     <<"P", "u", "b", "l", "i", "c", ",", " ">> \o S_protected,
     S_public \o <<",">> \o S_protected \o <<",">> \o S_private}

PhotoDBs ==
    {[photos |-> [i \in {Id_photo} |-> [realm |-> Realm(lp)]],
      albums |-> [i \in {Id_album} |-> [realm |-> Realm(la)]],
      labels |-> [i \in {Id_photo, Id_album} |-> IF i = Id_photo THEN lp ELSE la]] :
        lp \in RealmLabels, la \in RealmLabels}

EmptyPhotoDB ==
    [photos |-> [i \in {} |-> None], albums |-> [i \in {} |-> None],
     labels |-> [i \in {} |-> None]]

NoPhotosCall == [uri |-> None, roles |-> None, status |-> 0]

PhotosIdle == pdb = EmptyPhotoDB /\ pcall = NoPhotosCall

\* GET /authorize of the photos service
authorize_access ==
    /\ \E uri \in PhotoUris, roles \in PhotoRoleHeaders :
        pcall' = [uri |-> uri, roles |-> roles,
                  status |-> AuthorizeAccess(pdb, uri, roles)]
    /\ UNCHANGED pdb
    /\ UNCHANGED engineVars
    /\ UNCHANGED gatewayVars
    /\ UNCHANGED reloadVars
    /\ UNCHANGED loopVars
    /\ UNCHANGED schedulerVars

\* the role strings an administrator gives a user
UpdatedRoles == {S_admin, S_public \o <<",">> \o S_protected}

\* PUT /users/{email} with a roles field: the stored roles of the user are
\* replaced; 404 and no change when the user is not stored
update_user ==
    /\ resp = NoResponse
    /\ \E email \in Emails, roles \in UpdatedRoles :
        db' = IF db[email].exists
              THEN [db EXCEPT ![email].roles = roles]
              ELSE db
    /\ UNCHANGED <<source, constructed, rules, loadStatus, call, now, idp, session, req,
                    resp, last>>
    /\ UNCHANGED reloadVars
    /\ UNCHANGED photosVars
    /\ UNCHANGED loopVars
    /\ UNCHANGED schedulerVars

(***************************************************************************)
(* One worker process of the gateway.  Its event loop thread runs the      *)
(* handlers of the requests the worker accepted, one at a time.  authorize *)
(* is a coroutine without await (main.py:251-317): once started it keeps   *)
(* the thread until it returns, the blocking client.get of the delegation  *)
(* (authorization.py:172-173) included.  The rule table, the provider and  *)
(* the user store do not change while the requests are in flight, so what  *)
(* a handler will do is known when its coroutine is created.               *)
(***************************************************************************)
RequestIds == 1..MaxRequests

LoopFree == 0

\* what the outbound call of a handler may end in; NotContacted when it makes none
CallOutcomes == RemoteOutcomes \cup {NotContacted}

NoInflight ==
    [pc |-> "none", cookie |-> None, header |-> None, remote |-> NotContacted,
     status |-> 0,
     co |-> [delegates |-> FALSE, answer |-> [o \in CallOutcomes |-> 0]]]

LoopIdle ==
    /\ loop = LoopFree
    /\ inflight = [r \in RequestIds |-> NoInflight]

\* faulty variant: the client is built without timeout
ClientTimeout_mNone == FALSE

\* httpx.Client(timeout=5.0): a call the target does not answer is abandoned
ClientTimeout == TRUE

\* the handler of the request, the delegation target doing what remote says
Handled(q, remote) ==
    Authorize(rules, q.cookie, q.header, EmptySession, now, idp, db, "IdTokenError", remote)

\* the handler of the request makes the outbound delegation call
Delegates(q) == Handled(q, NotContacted).call.outbound # <<>>

\* the coroutine of the handler of the request: whether it makes the outbound
\* call, and the status it answers for each way the call may end
Coroutine(q) ==
    [delegates |-> Delegates(q),
     answer |-> [o \in CallOutcomes |-> Handled(q, o).resp.status]]

\* the server accepts a GET /authorize request and schedules its handler
accept(r) ==
    /\ inflight[r].pc = "none"
    /\ \E cookie \in {None, K_user}, header \in GatewayUris :
        inflight' = [inflight EXCEPT ![r] =
                        [NoInflight EXCEPT
                            !.pc = "accepted", !.cookie = cookie, !.header = header,
                            !.co = Coroutine([cookie |-> cookie, header |-> header])]]
    /\ UNCHANGED loop
    /\ UNCHANGED engineVars
    /\ UNCHANGED gatewayVars
    /\ UNCHANGED reloadVars
    /\ UNCHANGED photosVars
    /\ UNCHANGED schedulerVars

\* the event loop, free, runs the handler of an accepted request: to its
\* response when it needs no delegation, else into the outbound call, where
\* the handler waits on the socket with the thread
run(r) ==
    /\ loop = LoopFree
    /\ inflight[r].pc = "accepted"
    /\ IF inflight[r].co.delegates
       THEN /\ loop' = r
            /\ inflight' = [inflight EXCEPT ![r].pc = "waiting"]
       ELSE /\ loop' = LoopFree
            /\ inflight' = [inflight EXCEPT
                               ![r].pc = "answered",
                               ![r].status = inflight[r].co.answer[NotContacted]]
    /\ UNCHANGED engineVars
    /\ UNCHANGED gatewayVars
    /\ UNCHANGED reloadVars
    /\ UNCHANGED photosVars
    /\ UNCHANGED schedulerVars

\* the outbound call of the waiting handler ends as remote says; the handler
\* answers and gives the thread back
Resume(r, remote) ==
    /\ loop = r
    /\ inflight[r].pc = "waiting"
    /\ inflight' = [inflight EXCEPT
                       ![r].pc = "answered",
                       ![r].remote = remote,
                       ![r].status = inflight[r].co.answer[remote]]
    /\ loop' = LoopFree
    /\ UNCHANGED engineVars
    /\ UNCHANGED gatewayVars
    /\ UNCHANGED reloadVars
    /\ UNCHANGED photosVars
    /\ UNCHANGED schedulerVars

\* the delegation target answers, or the connection fails
answer(r) ==
    \E remote \in RemoteOutcomes : remote.kind # "timeout" /\ Resume(r, remote)

\* the target has not answered when the client's timeout expires
timeout(r) ==
    /\ ClientTimeout
    /\ Resume(r, [kind |-> "timeout", status |-> 0])

(***************************************************************************)
(* The worker processes of the photos service and the scheduler lock file  *)
(* (shared_db.py).  Every worker calls start_scheduler once; the steps of   *)
(* the call are its system calls on the lock file.  A process may die at   *)
(* any point.  A lock file may be there from the start, left by a process  *)
(* that died: with its PID in it, or empty when it died between creating   *)
(* the file and writing it.                                                *)
(***************************************************************************)
Workers == 1..MaxWorkers

\* the process that left the lock file found at the start; it is dead
Holder == 0

\* the PID of the dead process
Pid_holder == 7

\* the PIDs the workers may have: the first worker may have been given the
\* PID of the dead process again
WorkerPids(w) == IF w = 1 THEN {Pid_holder, Pid_holder + 1} ELSE {Pid_holder + w}

NoFile == [exists |-> FALSE, creator |-> Holder, written |-> FALSE, pid |-> 0]

\* the file a process has created with open(..., "x"), before its write reaches it
CreatedBy(w) == [exists |-> TRUE, creator |-> w, written |-> FALSE, pid |-> 0]

\* the lock file the dead process left
StaleFiles ==
    {[exists |-> TRUE, creator |-> Holder, written |-> TRUE, pid |-> Pid_holder],
     CreatedBy(Holder)}

IdleWorker(pid) ==
    [pid |-> pid, alive |-> TRUE, pc |-> "idle", running |-> FALSE, job |-> FALSE,
     saw |-> NoFile]

SchedulerIdle ==
    /\ lockfile = NoFile
    /\ procs = [w \in Workers |-> IdleWorker(Pid_holder + w)]

\* os.kill(pid, 0) succeeds: some running process has the PID
PidRunning(pid) == \E w \in Workers : procs[w].alive /\ procs[w].pid = pid

\* _is_lock_held_by_other up to its verdict on the file it read: "held" (return
\* True), "free" (return False with the file left as it is), or "stale" (the
\* OSError branch, before _release_lock)
LockVerdict(w, file) ==
    IF ~file.exists THEN "free"
    ELSE IF ~file.written THEN "free"
    ELSE IF ~PidRunning(file.pid) THEN "stale"
    ELSE IF file.pid # procs[w].pid THEN "held"
    ELSE "free"

SchedulerFrame ==
    /\ UNCHANGED engineVars
    /\ UNCHANGED gatewayVars
    /\ UNCHANGED reloadVars
    /\ UNCHANGED photosVars
    /\ UNCHANGED loopVars

\* start_scheduler, first step: the worker reads the lock file and probes the PID
check_lock(w) ==
    /\ procs[w].alive /\ procs[w].pc = "idle"
    /\ procs' = [procs EXCEPT
                    ![w].saw = lockfile,
                    ![w].pc = CASE LockVerdict(w, lockfile) = "held" -> "done"
                                [] LockVerdict(w, lockfile) = "stale" -> "release"
                                [] OTHER -> "acquire"]
    /\ UNCHANGED lockfile
    /\ SchedulerFrame

\* _release_lock of the stale branch: the file of that name is removed, if any
release_stale(w) ==
    /\ procs[w].alive /\ procs[w].pc = "release"
    /\ lockfile' = NoFile
    /\ procs' = [procs EXCEPT ![w].pc = "acquire"]
    /\ SchedulerFrame

\* open(lock_file, "x"): creates the file, or FileExistsError and the call returns
acquire(w) ==
    /\ procs[w].alive /\ procs[w].pc = "acquire"
    /\ IF lockfile.exists
       THEN /\ procs' = [procs EXCEPT ![w].pc = "done"]
            /\ UNCHANGED lockfile
       ELSE /\ procs' = [procs EXCEPT ![w].pc = "write"]
            /\ lockfile' = CreatedBy(w)
    /\ SchedulerFrame

\* f.write(str(os.getpid())) and the close that flushes it: the PID reaches the
\* file the worker created, which is the lock file unless it was removed since
write_pid(w) ==
    /\ procs[w].alive /\ procs[w].pc = "write"
    /\ lockfile' = IF lockfile = CreatedBy(w)
                   THEN [lockfile EXCEPT !.written = TRUE, !.pid = procs[w].pid]
                   ELSE lockfile
    /\ procs' = [procs EXCEPT ![w].pc = "start"]
    /\ SchedulerFrame

\* the scheduler of the worker is started and given the daily reload job
start_jobs(w) ==
    /\ procs[w].alive /\ procs[w].pc = "start"
    /\ procs' = [procs EXCEPT ![w].pc = "done", ![w].running = TRUE, ![w].job = TRUE]
    /\ UNCHANGED lockfile
    /\ SchedulerFrame

\* shutdown_scheduler: a worker whose scheduler runs and whose PID is in the
\* lock file stops it and removes the file
shutdown_scheduler(w) ==
    /\ procs[w].alive /\ procs[w].pc = "done" /\ procs[w].running
    /\ IF lockfile.exists /\ lockfile.written /\ lockfile.pid = procs[w].pid
       THEN /\ procs' = [procs EXCEPT ![w].pc = "stopped", ![w].running = FALSE]
            /\ lockfile' = NoFile
       ELSE /\ procs' = [procs EXCEPT ![w].pc = "stopped"]
            /\ UNCHANGED lockfile
    /\ SchedulerFrame

\* the worker process dies; its scheduler dies with it, the lock file stays
crash(w) ==
    /\ procs[w].alive
    /\ procs' = [procs EXCEPT ![w].alive = FALSE, ![w].running = FALSE, ![w].pc = "dead"]
    /\ UNCHANGED lockfile
    /\ SchedulerFrame

\* the gateway before its first request
GatewayIdle ==
    /\ now = 0
    /\ session = EmptySession
    /\ last = NoLast
    /\ ReloadIdle
    /\ PhotosIdle
    /\ LoopIdle
    /\ SchedulerIdle
    /\ req = NoGatewayRequest
    /\ resp = NoResponse

Init ==
    /\ source \in Sources(RuleLines, MaxLines) \cup {[exists |-> TRUE, lines |-> ReferenceLines]}
    /\ constructed = FALSE
    /\ rules = <<>>
    /\ loadStatus = "none"
    /\ call = NoCall
    /\ idp = [c \in Credentials |-> Rejected]
    /\ db = [e \in Emails |-> NoUser]
    /\ GatewayIdle

Next == Construct \/ load_rules \/ is_authorized \/ Return

Spec == Init /\ [][Next]_vars

(***************************************************************************)
(* The rule store alone: loading and reloading sources of every shape.     *)
(***************************************************************************)
InitLoad ==
    /\ source \in Sources(LoadLines, MaxSourceLines)
    /\ constructed = FALSE
    /\ rules = <<>>
    /\ loadStatus = "none"
    /\ call = NoCall
    /\ idp = [c \in Credentials |-> Rejected]
    /\ db = [e \in Emails |-> NoUser]
    /\ GatewayIdle

NextLoad == Construct \/ load_rules

SpecLoad == InitLoad /\ [][NextLoad]_vars

(***************************************************************************)
(* The shared manager, built, with one thread reloading and one deciding.  *)
(***************************************************************************)
InitReload ==
    /\ source \in ReloadSources
    /\ constructed = TRUE
    /\ rules = Load(source, -1).rules
    /\ loadStatus = "loaded"
    /\ call = NoCall
    /\ idp = [c \in Credentials |-> Rejected]
    /\ db = [e \in Emails |-> NoUser]
    /\ GatewayIdle

NextReload ==
    rewrite \/ reload_begin \/ reload_row \/ reload_end
    \/ read_begin \/ read_step \/ read_return

SpecReload == InitReload /\ [][NextReload]_vars

(***************************************************************************)
(* The gateway in front of the test suite's rule table, its manager built  *)
(* and the table loaded.                                                   *)
(***************************************************************************)
InitGateway ==
    /\ source = [exists |-> TRUE, lines |-> ReferenceLines]
    /\ constructed = TRUE
    /\ rules = Load(source, -1).rules
    /\ loadStatus = "loaded"
    /\ call = NoCall
    /\ idp \in {[c \in Credentials |-> IF c = K_anon THEN Verified(None) ELSE Verified(e)] :
                    e \in Emails}
    /\ db \in UserStores
    /\ GatewayIdle

NextGateway == authorize \/ Deliver \/ Tick \/ Revoke

SpecGateway == InitGateway /\ [][NextGateway]_vars

(***************************************************************************)
(* Identity resolution alone: GET /me and POST /logout of one caller, the  *)
(* clock and the provider.                                                 *)
(***************************************************************************)
NextIdentity == me \/ logout \/ Deliver \/ Tick \/ Revoke

SpecIdentity == InitGateway /\ [][NextIdentity]_vars

(***************************************************************************)
(* Identity resolution while an administrator edits the user store: GET    *)
(* /me of one caller, the clock, and PUT /users/{email}.  The provider     *)
(* keeps accepting the credentials it accepts.                             *)
(***************************************************************************)
NextStaleness == me \/ Deliver \/ Tick \/ update_user

SpecStaleness == InitGateway /\ [][NextStaleness]_vars

(***************************************************************************)
(* The photos service in front of its database.                            *)
(***************************************************************************)
InitPhotos ==
    /\ source = [exists |-> FALSE, lines |-> <<>>]
    /\ constructed = FALSE
    /\ rules = <<>>
    /\ loadStatus = "none"
    /\ call = NoCall
    /\ idp = [c \in Credentials |-> Rejected]
    /\ db = [e \in Emails |-> NoUser]
    /\ now = 0
    /\ session = EmptySession
    /\ req = NoGatewayRequest
    /\ resp = NoResponse
    /\ last = NoLast
    /\ ReloadIdle
    /\ pdb \in PhotoDBs
    /\ pcall = NoPhotosCall
    /\ LoopIdle
    /\ SchedulerIdle

NextPhotos == authorize_access

SpecPhotos == InitPhotos /\ [][NextPhotos]_vars

(***************************************************************************)
(* One gateway worker with several requests in flight.                     *)
(***************************************************************************)
NextLoop ==
    \E r \in RequestIds : accept(r) \/ run(r) \/ answer(r) \/ timeout(r)

\* the gateway with an enabled user stored, whom the provider knows
InitLoop ==
    /\ InitGateway
    /\ idp[K_user].email = E_user
    /\ db[E_user].exists /\ db[E_user].enabled

SpecLoop == InitLoop /\ [][NextLoop]_vars

\* the event loop runs every handler that is ready, and the timer of a client
\* that waits fires; nothing is assumed of the delegation target
SpecLoopLive ==
    /\ SpecLoop
    /\ \A r \in RequestIds : WF_vars(run(r)) /\ WF_vars(timeout(r))

(***************************************************************************)
(* The workers of the photos service starting their schedulers.            *)
(***************************************************************************)
InitScheduler ==
    /\ source = [exists |-> FALSE, lines |-> <<>>]
    /\ constructed = FALSE
    /\ rules = <<>>
    /\ loadStatus = "none"
    /\ call = NoCall
    /\ idp = [c \in Credentials |-> Rejected]
    /\ db = [e \in Emails |-> NoUser]
    /\ now = 0
    /\ session = EmptySession
    /\ req = NoGatewayRequest
    /\ resp = NoResponse
    /\ last = NoLast
    /\ ReloadIdle
    /\ PhotosIdle
    /\ LoopIdle
    /\ lockfile \in {NoFile} \cup StaleFiles
    /\ procs \in {[w \in Workers |-> IdleWorker(f[w])] :
                    f \in {g \in [Workers -> UNION {WorkerPids(w) : w \in Workers}] :
                            \A w \in Workers : g[w] \in WorkerPids(w)}}

NextScheduler ==
    \E w \in Workers :
        \/ check_lock(w) \/ release_stale(w) \/ acquire(w) \/ write_pid(w)
        \/ start_jobs(w) \/ shutdown_scheduler(w) \/ crash(w)

SpecScheduler == InitScheduler /\ [][NextScheduler]_vars

(***************************************************************************)
(* Properties of the decision engine, stated on the latest call.  They are *)
(* written with their own reading of "matches" and "applies", by           *)
(* quantification over the table, not with the loop of is_authorized.      *)
(***************************************************************************)
Called == call.op = "is_authorized"

Denied == call.result = "False"

Allowed == call.result = "True"

\* rule i's pattern matches the path of the call
PatternMatches(i) == FnMatch(call.uri, rules[i].uri_pattern)

IsAllow(i) == rules[i].action = S_allow

HasDelegationTarget(i) == rules[i].role # None /\ Head(rules[i].role) = "!"

NamesRole(i) == rules[i].role # None /\ Head(rules[i].role) # "!"

CallerHolds(i) == \E n \in 1..Len(call.roles) : call.roles[n] = rules[i].role

\* rule i applies to the caller: no role column, a delegation target, or a role held
Covers(i) == rules[i].role = None \/ HasDelegationTarget(i) \/ CallerHolds(i)

\* rule i is the first rule whose pattern matches the path
FirstMatching(i) ==
    /\ i \in 1..Len(rules)
    /\ PatternMatches(i)
    /\ \A k \in 1..(i - 1) : ~PatternMatches(k)

\* rule i is the first rule whose pattern matches the path and which applies to the caller
Deciding(i) ==
    /\ i \in 1..Len(rules)
    /\ PatternMatches(i) /\ Covers(i)
    /\ \A k \in 1..(i - 1) : ~(PatternMatches(k) /\ Covers(k))

\* C1: default deny -- whenever no rule of the table has a pattern matching the
\* path (the empty table included), is_authorized returns False, for every role list.
C1_DefaultDeny ==
    (Called /\ \A i \in 1..Len(rules) : ~PatternMatches(i)) => Denied

\* a call on a non-empty table none of whose patterns matches, by an admin
C1_Witness ==
    /\ Called /\ Len(rules) >= 2 /\ call.roles = <<S_admin>>
    /\ \A i \in 1..Len(rules) : ~PatternMatches(i)
    /\ Denied

\* C2 as stated: a deny rule that is the first rule matching the path, followed by
\* an allow rule that matches it too, denies the path for every role list,
\* whatever the deny rule's role column.
C2_Original ==
    Called =>
        \A i, j \in 1..Len(rules) :
            (i < j /\ FirstMatching(i) /\ ~IsAllow(i) /\ PatternMatches(j) /\ IsAllow(j))
                => Denied

\* C2 (amended): a deny rule matching the path that precedes an allow rule matching
\* it too denies the path for every role list the deny rule applies to (its role
\* column is absent, a delegation target, or a role of the list), provided no
\* earlier rule matches the path and applies to the caller.
C2_OrderIsPrecedence ==
    Called =>
        \A i, j \in 1..Len(rules) :
            (i < j /\ Deciding(i) /\ ~IsAllow(i) /\ PatternMatches(j) /\ IsAllow(j))
                => Denied

\* a role-scoped deny rule the caller holds wins over a later allow rule that
\* matches and applies to the caller as well
C2_Witness ==
    /\ Called /\ Denied
    /\ \E i, j \in 1..Len(rules) :
        /\ i < j /\ Deciding(i) /\ ~IsAllow(i) /\ NamesRole(i)
        /\ PatternMatches(j) /\ IsAllow(j) /\ Covers(j)

R_denyAuthorize == [action |-> S_deny, uri_pattern |-> <<"/", "a", "/", "z">>, role |-> None]

R_denyUsersPublic == [action |-> S_deny, uri_pattern |-> <<"/", "a", "/", "u", "*">>, role |-> S_public]

R_denyUsersProtected == [action |-> S_deny, uri_pattern |-> <<"/", "a", "/", "u", "*">>, role |-> S_protected]

R_allowAuthAdmin == [action |-> S_allow, uri_pattern |-> <<"/", "a", "/", "*">>, role |-> S_admin]

\* the table holds 'deny /auth/users* public', 'deny /auth/users* protected',
\* 'allow /auth/* admin' in a row, after rules that do not match the path
Scenario ==
    \E i \in 1..Len(rules) :
        /\ i + 2 <= Len(rules)
        /\ SubSeq(rules, i, i + 2) = <<R_denyUsersPublic, R_denyUsersProtected, R_allowAuthAdmin>>
        /\ \A k \in 1..(i - 1) : ~PatternMatches(k)

\* C4: a rule naming a role the caller lacks is passed over, never the deciding
\* rule, and later rules are consulted; with the rules of the scenario a caller
\* holding exactly admin is Allowed at /auth/users and a caller holding exactly
\* public is Denied.
C4_RolePassOver ==
    Called =>
        /\ \A i \in 1..Len(rules) :
            (PatternMatches(i) /\ NamesRole(i) /\ ~CallerHolds(i)) => call.rule # i
        /\ (Scenario /\ call.uri = <<"/", "a", "/", "u">>) =>
            /\ call.roles = <<S_admin>> => Allowed
            /\ call.roles = <<S_public>> => Denied

\* the scenario's admin caller, allowed after two deny rules were passed over
C4_Witness ==
    /\ Called /\ Scenario /\ call.uri = <<"/", "a", "/", "u">>
    /\ call.roles = <<S_admin>> /\ Allowed /\ call.rule >= 3

\* C5: when the deciding rule is an allow rule with a delegation target, the
\* decision is the delegation result: Allowed iff the target answered with a
\* status in [200,300), Denied for every other status; the caller's roles are
\* not consulted.
C5_DelegatedDecision ==
    Called =>
        \A i \in 1..Len(rules) :
            (Deciding(i) /\ IsAllow(i) /\ HasDelegationTarget(i)) =>
                /\ Allowed <=> (call.remote.kind = "status"
                                /\ call.remote.status \in 200..299)
                /\ (call.remote.kind = "status" /\ call.remote.status \notin 200..299)
                        => Denied

\* a caller with no role at all, allowed because the delegation target answered 200
C5_Witness ==
    /\ Called /\ Allowed /\ call.roles = <<>>
    /\ call.remote = [kind |-> "status", status |-> 200]
    /\ \E i \in 1..Len(rules) : Deciding(i) /\ IsAllow(i) /\ HasDelegationTarget(i)

\* C6: _delegate_authorization never raises; every failure of the outbound call
\* (timeout, connection error, non-2xx answer, unexpected exception) gives False.
C6_DelegationFailClosed ==
    (Called /\ call.outbound # <<>>) =>
        /\ call.result \in {"True", "False"}
        /\ ~(call.remote.kind = "status" /\ call.remote.status \in 200..299) => Denied

\* C9: after a load that found the source missing or unreadable the table is
\* empty, so every later is_authorized call is Denied.
C9_LoadFailSoft ==
    loadStatus \in {"not_found", "error"} =>
        /\ rules = <<>>
        /\ Called => Denied

(***************************************************************************)
(* Properties of the rule store, stated on the lines of the source.        *)
(***************************************************************************)
\* the first non-blank character of the line is '#'
IsCommentLine(line) ==
    \E i \in 1..Len(line) :
        line[i] = "#" /\ \A k \in 1..(i - 1) : line[k] \in {" ", "\t"}

\* a well-formed record: not a comment, and at least two comma-separated fields
IsRecordLine(line) ==
    ~IsCommentLine(line) /\ \E i \in 1..Len(line) : line[i] = ","

RecordIndexes(lines) == {i \in 1..Len(lines) : IsRecordLine(lines[i])}

\* the index of the n-th well-formed record of the file
NthRecord(lines, n) ==
    CHOOSE i \in RecordIndexes(lines) :
        Cardinality({k \in RecordIndexes(lines) : k <= i}) = n

\* the rule a well-formed record stands for
RuleOfLine(line) ==
    LET f == Split(line, ",") IN
    AuthorizationRule(f[1], f[2], IF Len(f) >= 3 THEN f[3] ELSE None)

\* C10: a load that reads the whole source yields exactly the rules of its
\* well-formed records, in file order, whatever comments, empty lines, blank
\* lines and one-field lines stand between them.
C10_PartialFailureTolerance ==
    loadStatus = "loaded" =>
        /\ Len(rules) = Cardinality(RecordIndexes(source.lines))
        /\ \A n \in 1..Len(rules) :
            rules[n] = RuleOfLine(source.lines[NthRecord(source.lines, n)])

\* two well-formed records of different shape with a skipped line between them
C10_Witness ==
    /\ loadStatus = "loaded" /\ Len(rules) = 2 /\ rules[1] # rules[2]
    /\ \E i, j, k \in 1..Len(source.lines) :
        /\ i < j /\ j < k
        /\ IsRecordLine(source.lines[i]) /\ ~IsRecordLine(source.lines[j])
        /\ IsRecordLine(source.lines[k])

(***************************************************************************)
(* Properties of the GET /authorize endpoint, stated on the request being  *)
(* answered.                                                               *)
(***************************************************************************)
Answered == resp.status # 0

\* the outbound delegation call of the request was made and did not end in a 2xx answer
DelegationFailed ==
    /\ call.outbound # <<>>
    /\ ~(call.remote.kind = "status" /\ call.remote.status \in 200..299)

\* C7: a request whose deciding rule delegates to a target that times out,
\* refuses the connection or answers non-2xx is answered 403, never 200 or 500.
C7_DelegationFailureIs403 ==
    (Answered /\ DelegationFailed) => resp.status = 403

\* resolving the identity of the request asked the provider, which rejected the credential
ProviderRejected ==
    /\ req.cookie \in Credentials
    /\ req.asked
    /\ ~idp[req.cookie].valid

\* C8: a request whose session credential the identity provider rejects is
\* decided as an anonymous caller, with the role set {public}, and answered 200
\* or 403; it is never answered 500.
C8_RejectedCredentialIsAnonymous ==
    (Answered /\ ProviderRejected) =>
        /\ resp.status \in {200, 403}
        /\ call.op = "is_authorized" /\ call.roles = <<S_public>>

(***************************************************************************)
(* Properties of a reload running beside a decision.                       *)
(***************************************************************************)
\* the complete tables the manager held during the read that just finished: those
\* collected by the reader, and the one a load still running is building
CompleteTables ==
    reader.tables
    \cup (IF loader.pc = "idle" THEN {} ELSE {LoadRows(source.lines, Len(source.lines))})

\* the decision of the finished read's arguments on table T
DecisionOn(T) == IsAuthorized(T, call.uri, call.roles, call.request, NotContacted).result

\* C11: atomic reload -- every decision made while load_rules runs is the decision
\* on the complete old table or on the complete new table; no reader decides on
\* an empty or partially built table.
C11_AtomicReload ==
    reader.pc = "done" => \E T \in CompleteTables : call.result = DecisionOn(T)

(***************************************************************************)
(* Properties of identity resolution, stated on the request being answered *)
(* (req.before is the session store it found, req.prev the latest earlier  *)
(* verify_user call on a credential that returned).                        *)
(***************************************************************************)
\* the request made verify_user run (POST /logout and a GET /me without cookie do not)
Resolving == resp.status # 0 /\ req.kind # "none"

\* the request carries a credential
WithCredential == req.cookie \in Credentials

\* the key the code is to use for the request's credential
KeyOfRequest ==
    <<"u", "s", "e", "r", "_", "i", "n", "f", "o", "_">> \o Sha256Prefix(req.cookie)

\* the request is the second of two verify_user calls with the same credential,
\* made on the session store the first one left
SecondCall ==
    /\ Resolving /\ WithCredential
    /\ req.prev.present /\ req.prev.cookie = req.cookie
    /\ req.before = req.prev.session

\* the second call returned the role string of the first without asking the provider
SameAnswerUnasked ==
    /\ req.kind = "user"
    /\ req.user.roles = req.prev.roles
    /\ req.contacts = 0

\* C12 as stated: the second of two calls with the same credential and session
\* store, made less than the TTL after the first, returns the same role string
\* and does not contact the provider.
C12_Original ==
    (SecondCall /\ now - req.prev.at < CACHE_VALID_MINUTES) => SameAnswerUnasked

\* C12 (amended): the second of two calls with the same credential and session
\* store returns the same role string and does not contact the provider when it
\* is made less than the TTL after the cachedAt of the credential's entry, that
\* is after the latest call that contacted the provider; a first call that was
\* itself answered from the cache does not restart the window.
C12_CacheHitIdempotence ==
    (SecondCall /\ KeyOfRequest \in DOMAIN req.before
        /\ now - req.before[KeyOfRequest].cached_at < CACHE_VALID_MINUTES)
    => SameAnswerUnasked

\* a logged-in caller asks again later, within the window, and the provider,
\* which has rejected the credential since, is not asked
C12_Witness ==
    /\ SecondCall /\ SameAnswerUnasked
    /\ now > req.prev.at
    /\ req.user.email # None
    /\ ~idp[req.cookie].valid

\* the session store the request found has no entry for the credential, or one
\* that is at least TTL old
StaleOrAbsent ==
    \/ KeyOfRequest \notin DOMAIN req.before
    \/ now - req.before[KeyOfRequest].cached_at >= CACHE_VALID_MINUTES

\* C13: a verify_user call on a credential whose entry is absent or at least TTL
\* old contacts the provider exactly once, and when it returns the entry is the
\* identity it returned, cached at the current time.
C13_StalenessTriggersRefresh ==
    (Resolving /\ WithCredential /\ StaleOrAbsent) =>
        /\ req.contacts = 1
        /\ req.kind = "user" =>
            /\ KeyOfRequest \in DOMAIN session
            /\ session[KeyOfRequest].cached_at = now
            /\ session[KeyOfRequest].user = req.user

\* an entry exactly TTL old is replaced
C13_Witness ==
    /\ Resolving /\ WithCredential /\ req.kind = "user"
    /\ KeyOfRequest \in DOMAIN req.before
    /\ now - req.before[KeyOfRequest].cached_at = CACHE_VALID_MINUTES
    /\ req.contacts = 1
    /\ session[KeyOfRequest].cached_at = now

\* C14: without credential (cookie absent, empty or blank) verify_user returns
\* the identity with email None and roles exactly "public", does not contact the
\* provider and leaves the session store as it found it.
C14_NoCredentialIsAnonymous ==
    (Resolving /\ ~WithCredential) =>
        /\ req.kind = "user"
        /\ req.user.email = None
        /\ req.user.roles = S_public
        /\ req.contacts = 0
        /\ session = req.before

\* a blank cookie, on a session store that holds an entry
C14_Witness ==
    /\ Resolving /\ req.cookie = <<" ">> /\ req.user.email = None
    /\ session # EmptySession

\* the tokens of a comma-joined role string
RoleTokens(roles) == {Strip(Split(roles, ",")[i]) : i \in 1..Len(Split(roles, ","))}

\* C15: every identity verify_user returns (no credential, cache hit, provider
\* refresh) has "public" among its roles.
C15_PublicAlwaysPresent ==
    (Resolving /\ req.kind = "user") => S_public \in RoleTokens(req.user.roles)

\* a cache hit for a user whose stored roles do not name "public"
C15_Witness ==
    /\ Resolving /\ req.kind = "user" /\ req.contacts = 0
    /\ req.user.email # None
    /\ S_public \notin RoleTokens(db[req.user.email].roles)

IsLowerCase(str) == \A i \in 1..Len(str) : str[i] \notin DOMAIN UpperToLower

\* C16: every role token of the identity resolution returns, of the cached entries
\* and of the X-Forwarded-Roles header is lower-case, whatever the case of the
\* roles in the user store.
C16_RolesLowerCase ==
    /\ (Resolving /\ req.kind = "user") => IsLowerCase(req.user.roles)
    /\ \A k \in DOMAIN session : IsLowerCase(session[k].user.roles)
    /\ (resp.status = 200 /\ resp.header # None) => IsLowerCase(resp.header)

\* C17: when the provider verifies the credential but reports no email,
\* verify_user returns the anonymous identity and leaves the session store
\* unchanged.
C17_NoEmailNotCached ==
    (Resolving /\ WithCredential /\ req.contacts = 1
        /\ idp[req.cookie].valid /\ idp[req.cookie].email = None)
    => /\ req.kind = "user" /\ req.user.email = None /\ req.user.roles = S_public
       /\ session = req.before

\* sub occurs in str
Contains(str, sub) ==
    \E i \in 0..(Len(str) - Len(sub)) : SubSeq(str, i + 1, i + Len(sub)) = sub

\* C18: every key of the session cache is the cache prefix followed by the hash
\* of a credential, and no key and no string of a stored entry contains a raw
\* credential.
C18_KeysAreHashes ==
    \A k \in DOMAIN session :
        /\ \E c \in Credentials :
                k = <<"u", "s", "e", "r", "_", "i", "n", "f", "o", "_">> \o Sha256Prefix(c)
        /\ \A c \in Credentials :
            /\ ~Contains(k, c)
            /\ ~Contains(session[k].user.roles, c)
            /\ session[k].user.email # c
            /\ session[k].user.email # None => ~Contains(session[k].user.email, c)

\* both credentials were cached, and a logout removed the key of one of them: the
\* key left is that of a logged-in user
C18_Witness ==
    /\ resp.detail = "logout"
    /\ Cardinality(DOMAIN req.before) = 2
    /\ Cardinality(DOMAIN session) = 1
    /\ \E k \in DOMAIN session : session[k].user.email # None

PathsOf(kind, id) ==
    {<<"/">> \o S_photos \o <<"/">> \o S_api \o <<"/">> \o kind \o <<"/">> \o id,
     <<"/">> \o S_photos \o <<"/">> \o S_api \o <<"/">> \o kind \o <<"/">> \o id
        \o <<"/", "i", "m", "g">>}

\* the forwarded role set: the tokens of the header, lower-cased
ForwardedRoleSet(header) ==
    {Lower(t) : t \in RoleTokens(IF header = None THEN S_public ELSE header)}

\* C20: for a forwarded path /photos/api/{photos|albums}/{id}... whose id is a
\* known resource, the photos service answers 200 iff the resource's realm label
\* is a member of the forwarded, lower-cased role set, and 403 otherwise.
C20_RealmAuthorizer ==
    \A id \in DOMAIN pdb.labels :
        pcall.uri \in PathsOf(IF id \in DOMAIN pdb.photos THEN S_photos ELSE S_albums, id) =>
            /\ pcall.status \in {200, 403}
            /\ pcall.status = 200 <=> pdb.labels[id] \in ForwardedRoleSet(pcall.roles)

\* the forwarded path names a resource kind the service has, and an id it does not know
UnknownResource ==
    /\ pcall.uri = Uri(<<S_photos, S_api, S_photos, Id_unknown>>)
    /\ Id_unknown \notin DOMAIN pdb.photos

\* the forwarded path has too few segments, or a resource kind the service does not have
UnrecognizedTemplate ==
    \/ pcall.uri = Uri(<<S_photos, S_api, S_photos>>)
    \/ pcall.uri = Uri(<<S_photos, S_api, <<"d", "o", "c">>, Id_photo>>)

\* C21: the realm authorizer answers 404 when the resource id of the forwarded
\* path is not a known resource and 400 when the path matches no recognized
\* template (too few segments, unknown resource kind); never 403 or 500.
C21_ErrorOutcomes ==
    /\ UnknownResource => pcall.status = 404
    /\ UnrecognizedTemplate => pcall.status = 400

(***************************************************************************)
(* Properties of the gateway on disabled accounts and on logout.           *)
(***************************************************************************)
\* the request carries a credential the provider accepts, for a user whose
\* stored record has enabled = false
DisabledCaller ==
    /\ req.cookie \in Credentials
    /\ req.kind = "user" /\ req.user.email # None
    /\ ~req.user.enabled

\* C23: a GET /authorize request with a valid session for a user whose stored
\* record is disabled is answered 403 'User account is disabled', whatever the
\* rule table grants the user's roles.
C23_DisabledNeverAuthorized ==
    (Answered /\ req.header # None /\ DisabledCaller) =>
        /\ resp.status = 403
        /\ resp.detail = "User account is disabled"

\* the key of the session store entry of credential c
KeyOf(c) == <<"u", "s", "e", "r", "_", "i", "n", "f", "o", "_">> \o Sha256Prefix(c)

\* the step is a POST /logout being handled
LogoutStep == resp = NoResponse /\ resp'.detail = "logout"

\* the step is a GET /me being handled
MeStep == resp = NoResponse /\ resp'.detail = "me"

\* C24: a logout for credential c leaves a session store without entry under the
\* cache key of c and with every entry under another key as it was; and a
\* verify_user call with c on a store without entry under its key contacts the
\* identity provider.
C24_LogoutClearsCache ==
    [][/\ (LogoutStep /\ req'.cookie \in Credentials) =>
            /\ KeyOf(req'.cookie) \notin DOMAIN session'
            /\ DOMAIN session' = DOMAIN session \ {KeyOf(req'.cookie)}
            /\ \A k \in DOMAIN session' : session'[k] = session[k]
       /\ (MeStep /\ req'.cookie \in Credentials
              /\ KeyOf(req'.cookie) \notin DOMAIN session) =>
            req'.contacts = 1
      ]_vars

\* a caller asks again less than the TTL after being resolved and the provider
\* is contacted, because a logout removed the entry in between and left the
\* entry of another credential
C24_Witness ==
    /\ Resolving /\ WithCredential
    /\ req.prev.present /\ req.prev.cookie = req.cookie
    /\ KeyOfRequest \in DOMAIN req.prev.session
    /\ now - req.prev.at < CACHE_VALID_MINUTES
    /\ KeyOfRequest \notin DOMAIN req.before
    /\ DOMAIN req.before # {}
    /\ req.contacts = 1

(***************************************************************************)
(* Properties of the rule class, stated on the columns of the record.      *)
(***************************************************************************)
\* the role column of a record, trimmed; None when the record has no third column
RoleColumn(line) ==
    LET f == Split(line, ",") IN IF Len(f) >= 3 THEN Strip(f[3]) ELSE None

\* the action column of a record, trimmed
ActionColumn(line) == Strip(Split(line, ",")[1])

IsOpenColumn(col) == col = None \/ col = <<>>

IsDelegationColumn(col) == ~IsOpenColumn(col) /\ Head(col) = "!"

\* the spelling of the action column is that of 'allow', whatever the case
SpellsAllow(col) ==
    /\ Len(col) = 5
    /\ col[1] \in {"a", "A"} /\ col[2] \in {"l", "L"} /\ col[3] \in {"l", "L"}
    /\ col[4] \in {"o", "O"} /\ col[5] \in {"w", "W"}

\* the rule alone never allows: any path, any role list, any delegation answer
ActsAsDeny(rule) ==
    \A uri \in Paths, user_roles \in RoleLists, request \in Requests :
        IsAuthorized(<<rule>>, uri, user_roles, request,
                     [kind |-> "status", status |-> 200]).result = "False"

\* C27: the target of a loaded rule is Open iff the role column of its record is
\* absent, empty or blank; a delegation iff the trimmed column begins with '!',
\* the host being the rest of the column; otherwise the role named.  The action
\* is allow iff the trimmed action column spells allow in any case, and a rule
\* with any other action never allows.
C27_TargetClassification ==
    loadStatus = "loaded" =>
        \A n \in 1..Len(rules) :
            LET line == source.lines[NthRecord(source.lines, n)]
                col == RoleColumn(line)
                rule == rules[n]
            IN /\ (rule.role = None) <=> IsOpenColumn(col)
               /\ is_delegated(rule) <=> IsDelegationColumn(col)
               /\ IsDelegationColumn(col) =>
                    delegation_url(rule) = <<"h", "t", "t", "p", ":", "/", "/">> \o Tail(col)
               /\ (~IsOpenColumn(col) /\ ~IsDelegationColumn(col)) => rule.role = col
               /\ (rule.action = S_allow) <=> SpellsAllow(ActionColumn(line))
               /\ ~SpellsAllow(ActionColumn(line)) => ActsAsDeny(rule)

\* a table loaded from a record with a blank role column, a record with a
\* delegation target and a record whose action is spelled in capitals
C27_Witness ==
    /\ loadStatus = "loaded" /\ Len(rules) = 3
    /\ \E i, j, k \in 1..3 :
        /\ source.lines[i] = L_allowBlankRole /\ rules[i].role = None
        /\ source.lines[j] = L_allowPhotosDelegated /\ is_delegated(rules[j])
        /\ source.lines[k] = L_fourFields /\ rules[k].action = S_allow

\* the step is an is_authorized call being made
DecisionStep == call = NoCall /\ call'.op = "is_authorized"

\* C29: an is_authorized call sends at most one outbound request, and only when
\* the deciding rule is an allow rule with a delegation target and a request
\* object was given; a deciding deny rule with a delegation target, and a
\* delegated decision without request object, give Denied with no outbound
\* request; the call leaves the rule table as it was.
C29_OneOptionalRoundTrip ==
    /\ [](Called =>
            /\ Len(call.outbound) <= 1
            /\ call.outbound # <<>> =>
                /\ call.request.present
                /\ \E i \in 1..Len(rules) :
                    Deciding(i) /\ IsAllow(i) /\ HasDelegationTarget(i)
            /\ \A i \in 1..Len(rules) :
                /\ (Deciding(i) /\ ~IsAllow(i) /\ HasDelegationTarget(i)) =>
                        (Denied /\ call.outbound = <<>>)
                /\ (Deciding(i) /\ IsAllow(i) /\ HasDelegationTarget(i)
                        /\ ~call.request.present) =>
                        (Denied /\ call.outbound = <<>>))
    /\ [][DecisionStep => rules' = rules]_vars

\* a delegated allow rule decides a call made without request object: Denied,
\* nothing sent
C29_Witness ==
    /\ Called /\ Denied /\ call.outbound = <<>> /\ ~call.request.present
    /\ \E i \in 1..Len(rules) : Deciding(i) /\ IsAllow(i) /\ HasDelegationTarget(i)

(***************************************************************************)
(* Properties of a gateway worker with several requests in flight.         *)
(***************************************************************************)
\* request a waits on its outbound delegation call
WaitsOnDelegation(a) == inflight[a].pc = "waiting"

\* request b is in flight, its handler not yet run, and needs no delegation
ReadyWithoutDelegation(b) == inflight[b].pc = "accepted" /\ ~Delegates(inflight[b])

\* C22: while one /authorize request waits on its outbound delegation call,
\* another request in flight that needs no delegation can run to completion.
C22_NoStall ==
    \A a, b \in RequestIds :
        (WaitsOnDelegation(a) /\ ReadyWithoutDelegation(b)) => ENABLED run(b)

\* the request is in flight: accepted, its response not yet made
InFlight(r) == inflight[r].pc \in {"accepted", "waiting"}

Completed(r) == inflight[r].pc = "answered" /\ inflight[r].status \in {200, 403, 500}

\* C26: every GET /authorize request in flight is eventually answered 200, 403
\* or 500, whether the delegation target answers or not.
C26_EventuallyAnswered ==
    \A r \in RequestIds : InFlight(r) ~> Completed(r)

\* a request answered after its outbound call was abandoned at the timeout
C26_Witness ==
    \E r \in RequestIds :
        /\ Completed(r)
        /\ inflight[r].remote.kind = "timeout"

(***************************************************************************)
(* Properties of the scheduler lock.                                       *)
(***************************************************************************)
\* the live workers whose scheduler is started
Started == {w \in Workers : procs[w].alive /\ procs[w].running}

\* C25: whatever the interleaving of the start_scheduler calls of the workers,
\* stale lock files included, at most one live worker has started the scheduler.
C25_MutualExclusion == Cardinality(Started) <= 1

\* worker w is the only one to have called start_scheduler, and its call returned
SingleCaller(w) ==
    /\ procs[w].alive /\ procs[w].pc = "done"
    /\ \A v \in Workers \ {w} : procs[v].pc = "idle"

\* worker w recovered the lock: its scheduler runs with the daily job and the
\* lock file is a fresh one with its PID
Recovered(w) ==
    /\ procs[w].running /\ procs[w].job
    /\ lockfile = [exists |-> TRUE, creator |-> w, written |-> TRUE, pid |-> procs[w].pid]

\* no other worker process has the PID
NotAnothersPid(w, pid) == \A v \in Workers \ {w} : procs[v].pid # pid

\* C28: a single live worker that calls start_scheduler and finds the lock file
\* of a process no longer running removes it, writes its own PID into a fresh
\* lock file and starts the scheduler with the daily job; the lock file a
\* crashed holder left never keeps the worker from starting the scheduler.
C28_StaleLockRecovery ==
    \A w \in Workers :
        (SingleCaller(w) /\ procs[w].saw \in StaleFiles
            /\ NotAnothersPid(w, procs[w].saw.pid)) => Recovered(w)

(***************************************************************************)
(* Properties of the cached identity while the user store changes.         *)
(***************************************************************************)
\* the roles verify_user computes for a user from the roles stored for it
ComputedRoles(email, stored) ==
    RoleTokens(stored) \cup {S_public}
        \cup (IF email = ADMIN_EMAIL THEN {S_admin} ELSE {})

\* the request is a verify_user call on a credential whose identity, that of a
\* stored user, is in the session store the call found
CachedCall ==
    /\ Resolving /\ WithCredential
    /\ KeyOfRequest \in DOMAIN req.before
    /\ req.before[KeyOfRequest].user.email # None

\* C30: a verify_user call for a credential whose identity was cached at time t
\* returns the roles cached at t, without asking the provider, when it is made
\* before t + TTL, whatever the user store holds by then; made at or after
\* t + TTL it asks the provider and returns the roles computed from the roles
\* the user store holds at the call.
C30_BoundedStaleness ==
    CachedCall =>
        LET entry == req.before[KeyOfRequest]
            expiry == entry.cached_at + CACHE_VALID_MINUTES
        IN /\ now < expiry =>
                /\ req.kind = "user"
                /\ req.user.roles = entry.user.roles
                /\ req.contacts = 0
           /\ now >= expiry =>
                /\ req.kind = "user"
                /\ req.contacts = 1
                /\ RoleTokens(req.user.roles)
                      = ComputedRoles(entry.user.email, db[entry.user.email].roles)

\* the stored roles changed after the identity was cached: a call before the
\* expiry returned the cached roles, and the call at the expiry returns others,
\* those of the user store
C30_Witness ==
    /\ CachedCall
    /\ now >= req.before[KeyOfRequest].cached_at + CACHE_VALID_MINUTES
    /\ req.prev.present /\ req.prev.cookie = req.cookie
    /\ req.prev.at > req.before[KeyOfRequest].cached_at
    /\ req.prev.roles = req.before[KeyOfRequest].user.roles
    /\ req.kind = "user"
    /\ req.user.roles # req.prev.roles

====
